---------------------------- MODULE Spec2Model ----------------------------
(***************************************************************************)
(* State-machine model of grub-core/loader/i386/efi/linux.c: the linuxefi  *)
(* loader (load kernel, load initrd, unload, boot) together with the       *)
(* firmware page pool its regions are taken from.                          *)
(*                                                                         *)
(* Every handler is one action.  A handler is written as a composition of  *)
(* stage operators over a working record s that holds the module's static  *)
(* variables, the page pool, and the handler's locals; the action draws    *)
(* the handler's inputs (file outcomes, header, allocator answers) with \E *)
(* and commits the final record.                                           *)
(***************************************************************************)
EXTENDS Integers, Sequences, FiniteSets, TLC

(***************************************************************************)
(* Bounds of the model.                                                    *)
(***************************************************************************)
\* Number of distinct region base addresses the firmware can hand out.
NumAddr == 5
\* Number of operations (load, initrd, unload, boot) the dispatcher issues.
MaxOps == 3
\* Largest number of initrd files named in one initrd command.
MaxInitrdFiles == 2

(***************************************************************************)
(* Program constants.                                                      *)
(***************************************************************************)
NULL == 0
PARAMS_BYTES == 16384
BOOT_FLAG_MAGIC == 43605
GRUB_LINUX_MAX_SETUP_SECTS == 64
MIN_HANDOVER_VERSION == 523
OFFSET_X86_64 == 512
\* sizeof (LINUX_IMAGE): the bytes of "BOOT_IMAGE=" and its terminating null.
SIZEOF_LINUX_IMAGE == 12

Addr == 1..NumAddr

\* #define BYTES_TO_PAGES(bytes)   (((bytes) + 0xfff) >> 12)
BYTES_TO_PAGES(bytes) == (bytes + 4095) \div 4096

\* ALIGN_UP (x, 4) and ALIGN_UP_OVERHEAD (x, 4) as used for initrd segments.
ALIGN_UP(x, align) == ((x + align - 1) \div align) * align
ALIGN_UP_OVERHEAD(x, align) == (align - (x % align)) % align

(***************************************************************************)
(* Firmware page pool.  A slot is a region base address.                   *)
(*   st    "free"    no page at this base is allocated                     *)
(*         "live"    an allocation of `pages` pages starts here            *)
(*         "partial" the leading pages were freed, `pages` trailing pages  *)
(*                   are still allocated but no call can name them         *)
(*   frees number of times the base was passed to free_pages since it was  *)
(*         last handed out (saturating at 2)                               *)
(***************************************************************************)
Kinds == {"params", "cmdline", "kernel", "initrd"}

FreeSlot == [st |-> "free", kind |-> "none", pages |-> 0, frees |-> 0]

Outstanding(h, a) == h[a].st \in {"live", "partial"}

LiveOf(h, kind) == {a \in Addr : Outstanding(h, a) /\ h[a].kind = kind}

\* Answers the allocator may give for a request: it is first-fit, so it
\* answers with the lowest free base, or with NULL (out of resources).
FreeBases(h) == {a \in Addr : h[a].st = "free"}

AllocChoices(h) ==
  {a \in FreeBases(h) : \A b \in FreeBases(h) : a <= b} \cup {NULL}

AllocPages(h, a, kind, n) ==
  [h EXCEPT ![a] = [st |-> "live", kind |-> kind, pages |-> n, frees |-> 0]]

\* free_pages(a, n) is an over-free when n exceeds the live allocation at a.
OverFree(h, a, n) == a # NULL /\ h[a].st = "live" /\ n > h[a].pages

\* free_pages(a, n).  `over` is the firmware's answer to an over-free:
\* TRUE releases the region, FALSE rejects the call.
FreePages(h, a, n, over) ==
  LET r    == h[a]
      cnt  == IF r.frees = 0 THEN 1 ELSE 2
      gone == [st |-> "free", kind |-> "none", pages |-> 0, frees |-> cnt]
      kept == [r EXCEPT !.frees = cnt]
  IN  IF r.st # "live" \/ n = 0 THEN [h EXCEPT ![a] = kept]
      ELSE IF n = r.pages THEN [h EXCEPT ![a] = gone]
      ELSE IF n < r.pages
        THEN [h EXCEPT ![a] = [kept EXCEPT !.st = "partial", !.pages = r.pages - n]]
      ELSE IF over THEN [h EXCEPT ![a] = gone]
      ELSE [h EXCEPT ![a] = kept]

(***************************************************************************)
(* Kernel images: the header fields the loader reads, and the file's size. *)
(***************************************************************************)
HeaderFields ==
  [boot_flag       : {BOOT_FLAG_MAGIC, 0},
   setup_sects     : {4, 65},
   version         : {512, MIN_HANDOVER_VERSION},
   handover_offset : {0, 480},
   cmdline_size    : {5, 255, 4096},
   init_size       : {5000},
   filelen         : {6000}]

\* The header passes the four checks of the loader.
WellFormed(h) ==
  /\ h.boot_flag = BOOT_FLAG_MAGIC
  /\ h.setup_sects <= GRUB_LINUX_MAX_SETUP_SECTS
  /\ h.version >= MIN_HANDOVER_VERSION
  /\ h.handover_offset # 0

\* An image with the magic, 4 setup sectors, a handover entry at 0x1e0 and
\* boot-protocol version v.
ScenarioImage(v) ==
  [boot_flag |-> BOOT_FLAG_MAGIC, setup_sects |-> 4, version |-> v,
   handover_offset |-> 480, cmdline_size |-> 255, init_size |-> 5000,
   filelen |-> 6000]

\* Boot protocol 2.03 and 2.11 (the first with the EFI handover entry).
Image0203 == ScenarioImage(515)
Image020b == ScenarioImage(MIN_HANDOVER_VERSION)

\* A well-formed image whose handover entry lies at 0x190.
ImageOtherEntry ==
  [ScenarioImage(MIN_HANDOVER_VERSION) EXCEPT !.handover_offset = 400]

\* Well-formed images whose file ends inside the setup sectors, and whose
\* payload is larger than init_size.
ImageTruncated == [ScenarioImage(MIN_HANDOVER_VERSION) EXCEPT !.filelen = 2000]
ImageOversized == [ScenarioImage(MIN_HANDOVER_VERSION) EXCEPT !.filelen = 20000]

\* Every combination of the four checked fields, the 2.03 image, the image
\* with the other entry and the two with odd file sizes; the well-formed
\* headers come with every command-line capacity.
Headers ==
  {h \in HeaderFields : WellFormed(h) \/ h.cmdline_size = 255}
    \cup {Image0203, ImageOtherEntry, ImageTruncated, ImageOversized}

NoHeader == [boot_flag |-> 0, setup_sects |-> 0, version |-> 0,
             handover_offset |-> 0, cmdline_size |-> 0, init_size |-> 0,
             filelen |-> 0]

\* Argument lists of the linux command, as the lengths of argv[0..argc-1]
\* (argv[0] is the kernel's file name).
ArgLists == {<<4>>, <<4, 300>>}

\* Sizes in bytes of the initrd source files.
InitrdSizes == {3, 8, 10}

\* Page counts an uninitialised or stale size field can yield.
GarbagePages == {0, 1, 2}

(***************************************************************************)
(* Error codes of the ambient error channel (grub_errno).                  *)
(***************************************************************************)
GRUB_ERR_NONE == "GRUB_ERR_NONE"
GRUB_ERR_BAD_ARGUMENT == "GRUB_ERR_BAD_ARGUMENT"
GRUB_ERR_FILE_NOT_FOUND == "GRUB_ERR_FILE_NOT_FOUND"
GRUB_ERR_OUT_OF_MEMORY == "GRUB_ERR_OUT_OF_MEMORY"
GRUB_ERR_FILE_READ_ERROR == "GRUB_ERR_FILE_READ_ERROR"
GRUB_ERR_INVALID_COMMAND == "GRUB_ERR_INVALID_COMMAND"
GRUB_ERR_BAD_OS == "GRUB_ERR_BAD_OS"
GRUB_ERR_NO_KERNEL == "GRUB_ERR_NO_KERNEL"

GRUB_EFI_SUCCESS == "GRUB_EFI_SUCCESS"
GRUB_EFI_SECURITY_VIOLATION == "GRUB_EFI_SECURITY_VIOLATION"
VerifyResults == {GRUB_EFI_SUCCESS, GRUB_EFI_SECURITY_VIOLATION}

(***************************************************************************)
(* State.                                                                  *)
(***************************************************************************)
VARIABLES
  loaded,           \* static int loaded
  kernel_mem,       \* static void *kernel_mem
  kernel_size,      \* static grub_uint64_t kernel_size (never assigned)
  initrd_mem,       \* static grub_uint8_t *initrd_mem
  handover_offset,  \* static grub_uint32_t handover_offset
  params,           \* struct linux_kernel_params *params
  linux_cmdline,    \* static char *linux_cmdline
  pdata,            \* contents of the block written through params
  heap,             \* firmware page pool
  registered,       \* the dispatcher holds this module's boot/unload actions
  sys,              \* "running", "booted" (handover taken), "fatal" (abort)
  nops,             \* operations issued so far
  last,             \* observation of the most recent operation
  booted,           \* observation of the handover call
  lastgood          \* what the most recent successful load recorded

vars == <<loaded, kernel_mem, kernel_size, initrd_mem, handover_offset, params,
          linux_cmdline, pdata, heap, registered, sys, nops, last, booted,
          lastgood>>

\* A zero-filled boot-parameter block (grub_memset (params, 0, 16384)).
ZeroParams == [ramdisk_size |-> 0, ramdisk_image |-> 0, cmdline_size |-> 0,
               code32_start |-> 0, type_of_loader |-> 0, hdr |-> FALSE]

NoSv == [run |-> FALSE, shim |-> FALSE, sb |-> FALSE, vr |-> GRUB_EFI_SUCCESS,
         ret |-> 0, sbq |-> FALSE, called |-> FALSE]

NoBoot == [arch64 |-> FALSE, base |-> NULL, off |-> 0, params |-> NULL,
           loaded |-> 0,
           kernel_live |-> FALSE, params_live |-> FALSE, cli |-> FALSE]

\* No command line was built.
NoCmd == [built |-> FALSE, args |-> <<>>,
          cap |-> [wrapped |-> FALSE, v |-> 0], taken |-> 0, extent |-> 0]

\* No payload was copied.
NoCopy == [done |-> FALSE, start |-> 0, len |-> 0, room |-> 0]

\* The working record of a handler: statics, page pool and locals.
Cur ==
  [loaded |-> loaded, kernel_mem |-> kernel_mem, kernel_size |-> kernel_size,
   initrd_mem |-> initrd_mem, handover_offset |-> handover_offset,
   params |-> params, linux_cmdline |-> linux_cmdline, pdata |-> pdata,
   heap |-> heap, registered |-> registered, sys |-> sys,
   errno |-> GRUB_ERR_NONE, msg |-> "", log |-> <<>>, allocd |-> {},
   img |-> NoHeader, lh |-> NoHeader, lhinit |-> FALSE, sv |-> NoSv,
   kernel |-> "null", argc |-> 0, nfiles |-> 0, size |-> 0,
   sizes |-> <<>>, layout |-> <<>>, cmd |-> NoCmd, start |-> 0, len |-> 0,
   copy |-> NoCopy]

\* grub_error (code, message)
Err(s, e, m) == [s EXCEPT !.errno = e, !.msg = m]

Log(s, ev) == [s EXCEPT !.log = Append(@, ev)]

\* The handler returns (or aborts): its statics become the module's state.
Commit(op, s) ==
  /\ loaded' = s.loaded
  /\ kernel_mem' = s.kernel_mem
  /\ kernel_size' = s.kernel_size
  /\ initrd_mem' = s.initrd_mem
  /\ handover_offset' = s.handover_offset
  /\ params' = s.params
  /\ linux_cmdline' = s.linux_cmdline
  /\ pdata' = IF s.params # NULL /\ s.heap[s.params].st = "live"
                    /\ s.heap[s.params].kind = "params"
                 THEN s.pdata ELSE ZeroParams
  /\ heap' = s.heap
  /\ registered' = s.registered
  /\ sys' = s.sys
  /\ nops' = nops + 1
  /\ last' = [op |-> op, errno |-> s.errno, msg |-> s.msg, log |-> s.log,
              allocd |-> s.allocd, img |-> s.img, lhinit |-> s.lhinit,
              sv |-> s.sv, argc |-> s.argc, size |-> s.size,
              sizes |-> s.sizes, layout |-> s.layout, cmd |-> s.cmd,
              copy |-> s.copy, was_loaded |-> loaded]
  /\ lastgood' = IF op = "linux" /\ s.errno = GRUB_ERR_NONE
                   THEN [base |-> s.kernel_mem, off |-> s.lh.handover_offset,
                         params |-> s.params]
                   ELSE lastgood
  /\ UNCHANGED booted

Init ==
  /\ loaded = 0
  /\ kernel_mem = NULL
  /\ kernel_size = 0
  /\ initrd_mem = NULL
  /\ handover_offset = 0
  /\ params = NULL
  /\ linux_cmdline = NULL
  /\ pdata = ZeroParams
  /\ heap = [a \in Addr |-> FreeSlot]
  /\ registered = FALSE
  /\ sys = "running"
  /\ nops = 0
  /\ last = [op |-> "init", errno |-> GRUB_ERR_NONE, msg |-> "", log |-> <<>>,
             allocd |-> {}, img |-> NoHeader, lhinit |-> FALSE, sv |-> NoSv,
             argc |-> 0, size |-> 0, sizes |-> <<>>, layout |-> <<>>,
             cmd |-> NoCmd, copy |-> NoCopy, was_loaded |-> 0]
  /\ booted = NoBoot
  /\ lastgood = [base |-> NULL, off |-> 0, params |-> NULL]

(***************************************************************************)
(* grub_linuxefi_secure_validate                                           *)
(***************************************************************************)
\* Mutant: without the shim protocol the image is accepted whatever the
\* secure-boot state.
Mutant_secure_validate_fail_open(shim, sb, vr) ==
  IF ~shim
    THEN [ret |-> 1, sbq |-> TRUE, called |-> FALSE]
    ELSE [ret |-> IF vr = GRUB_EFI_SUCCESS THEN 1 ELSE 0,
          sbq |-> FALSE, called |-> TRUE]

\* shim: the shim-lock protocol was located; sb: grub_efi_secure_boot ();
\* vr: the status shim_lock->verify would return.
grub_linuxefi_secure_validate(shim, sb, vr) ==
  IF ~shim
    THEN [ret |-> IF sb THEN 0 ELSE 1, sbq |-> TRUE, called |-> FALSE]
    ELSE [ret |-> IF vr = GRUB_EFI_SUCCESS THEN 1 ELSE 0,
          sbq |-> FALSE, called |-> TRUE]

(***************************************************************************)
(* grub_cmd_linux, stage by stage.                                         *)
(***************************************************************************)
\* Lines 211-235: the exits taken before the file has been read in full.
LinuxEarlyFail(s, why) ==
  CASE why = "noarg"  -> Err(s, GRUB_ERR_BAD_ARGUMENT, "filename expected")
    [] why = "open"   -> Err(s, GRUB_ERR_FILE_NOT_FOUND, "file not found")
    [] why = "malloc" -> Err(s, GRUB_ERR_OUT_OF_MEMORY,
                             "cannot allocate kernel buffer")
    [] why = "read"   -> Err([Log(s, "grub_malloc") EXCEPT !.kernel = "alloc"],
                             GRUB_ERR_FILE_READ_ERROR, "Can't read kernel")

\* Lines 217-231 on the path where the whole file, whose header is h, was
\* read into the file buffer.  (An image whose signature check fails is
\* never parsed: it stands here with the blank header.)
LinuxRead(s, h) == [Log(s, "grub_malloc") EXCEPT !.kernel = "alloc", !.img = h]

\* Mutant: the file is measured only once its signature has been accepted.
Mutant_ValidateThenMeasure(s, shim, sb, vr) ==
  LET r  == grub_linuxefi_secure_validate(shim, sb, vr)
      s2 == [Log(s, "validate") EXCEPT
               !.sv = [run |-> TRUE, shim |-> shim, sb |-> sb, vr |-> vr,
                       ret |-> r.ret, sbq |-> r.sbq, called |-> r.called]]
  IN  IF r.ret = 0
        THEN [Log(Err(s2, GRUB_ERR_INVALID_COMMAND, "invalid signature"),
                  "grub_free") EXCEPT !.kernel = "freed"]
        ELSE Log(s2, "measure")

\* Lines 237-244: measure the file, then check its signature.
LinuxMeasureAndValidate(s, shim, sb, vr) ==
  LET r  == grub_linuxefi_secure_validate(shim, sb, vr)
      s1 == Log(s, "measure")
      s2 == [Log(s1, "validate") EXCEPT
               !.sv = [run |-> TRUE, shim |-> shim, sb |-> sb, vr |-> vr,
                       ret |-> r.ret, sbq |-> r.sbq, called |-> r.called]]
  IN  IF r.ret = 0
        THEN [Log(Err(s2, GRUB_ERR_INVALID_COMMAND, "invalid signature"),
                  "grub_free") EXCEPT !.kernel = "freed"]
        ELSE s2

\* Lines 246-254: the boot-parameter block, zero-filled.
LinuxAllocParams(s, a) ==
  IF a = NULL
    THEN Err([s EXCEPT !.params = NULL, !.pdata = ZeroParams],
             GRUB_ERR_OUT_OF_MEMORY, "cannot allocate kernel parameters")
    ELSE [Log(s, "alloc_params") EXCEPT
            !.params = a,
            !.heap = AllocPages(s.heap, a, "params", BYTES_TO_PAGES(PARAMS_BYTES)),
            !.pdata = ZeroParams,
            !.allocd = @ \cup {a}]

\* Mutant: the handover-offset check is left out.
Mutant_CheckHeaderNoHandover(s) ==
  LET h  == s.img
      s1 == [Log(s, "check_header") EXCEPT !.lh = h, !.lhinit = TRUE]
  IN  IF h.boot_flag # BOOT_FLAG_MAGIC
        THEN Err(s1, GRUB_ERR_BAD_OS, "invalid magic number")
      ELSE IF h.setup_sects > GRUB_LINUX_MAX_SETUP_SECTS
        THEN Err(s1, GRUB_ERR_BAD_OS, "too many setup sectors")
      ELSE IF h.version < MIN_HANDOVER_VERSION
        THEN Err(s1, GRUB_ERR_BAD_OS, "kernel too old")
      ELSE s1

\* Lines 256-280: copy the header out of the file buffer and check it.
LinuxCheckHeader(s) ==
  LET h  == s.img
      s1 == [Log(s, "check_header") EXCEPT !.lh = h, !.lhinit = TRUE]
  IN  IF h.boot_flag # BOOT_FLAG_MAGIC
        THEN Err(s1, GRUB_ERR_BAD_OS, "invalid magic number")
      ELSE IF h.setup_sects > GRUB_LINUX_MAX_SETUP_SECTS
        THEN Err(s1, GRUB_ERR_BAD_OS, "too many setup sectors")
      ELSE IF h.version < MIN_HANDOVER_VERSION
        THEN Err(s1, GRUB_ERR_BAD_OS, "kernel too old")
      ELSE IF h.handover_offset = 0
        THEN Err(s1, GRUB_ERR_BAD_OS, "kernel doesn't support EFI handover")
      ELSE s1

\* a - b in the unsigned arithmetic of grub_size_t.  When a < b the
\* difference wraps to 2^N - (b - a), which exceeds every length here:
\* wrapped says so and v keeps b - a.
SizeSub(a, b) ==
  IF a >= b THEN [wrapped |-> FALSE, v |-> a - b]
            ELSE [wrapped |-> TRUE, v |-> b - a]

\* n <= cap for a capacity computed by SizeSub.
Fits(n, cap) == cap.wrapped \/ n <= cap.v

\* The bytes the first n arguments take, each with its separator.
RECURSIVE ArgBytes(_, _)
ArgBytes(args, n) == IF n = 0 THEN 0 ELSE ArgBytes(args, n - 1) + args[n] + 1

\* grub_create_loader_cmdline (argc, argv, buf, size): copies the arguments
\* in order while the next one and its separator fit in what is left of
\* size, then ends the string with a null (over the last separator, or at
\* buf[0] when nothing was copied).
grub_create_loader_cmdline(args, size) ==
  LET k == CHOOSE j \in 0..Len(args) :
             /\ \A i \in 1..j : Fits(ArgBytes(args, i), size)
             /\ j < Len(args) => ~Fits(ArgBytes(args, j + 1), size)
  IN  [taken |-> k, written |-> IF k = 0 THEN 1 ELSE ArgBytes(args, k)]

\* Lines 282-300: the command-line buffer.  The prefix and its null go to
\* bytes 0..11, the built command line starts at byte 11.
LinuxAllocCmdline(s, a, args) ==
  IF a = NULL
    THEN Err([s EXCEPT !.linux_cmdline = NULL],
             GRUB_ERR_OUT_OF_MEMORY, "can't allocate cmdline")
    ELSE LET cap == SizeSub(s.lh.cmdline_size, SIZEOF_LINUX_IMAGE - 1)
             r   == grub_create_loader_cmdline(args, cap)
         IN  [Log(s, "alloc_cmdline") EXCEPT
                !.linux_cmdline = a,
                !.heap = AllocPages(s.heap, a, "cmdline",
                                    BYTES_TO_PAGES(s.lh.cmdline_size + 1)),
                !.allocd = @ \cup {a},
                !.cmd = [built |-> TRUE, args |-> args, cap |-> cap,
                         taken |-> r.taken,
                         extent |-> SIZEOF_LINUX_IMAGE - 1 + r.written]]

\* Mutant: the kernel region is one page whatever init_size says.
Mutant_AllocKernelOnePage(s, apref, amax) ==
  LET s1 == [s EXCEPT !.handover_offset = s.lh.handover_offset,
                      !.start = (s.lh.setup_sects + 1) * 512,
                      !.len = s.img.filelen - (s.lh.setup_sects + 1) * 512]
      a  == IF apref # NULL THEN apref ELSE amax
  IN  IF a = NULL
        THEN Err([s1 EXCEPT !.kernel_mem = NULL],
                 GRUB_ERR_OUT_OF_MEMORY, "can't allocate kernel")
        ELSE [Log(s1, "alloc_kernel") EXCEPT
                !.kernel_mem = a,
                !.heap = AllocPages(s1.heap, a, "kernel", 1),
                !.allocd = @ \cup {a}]

\* Lines 302-318: record the handover offset, compute where the payload
\* starts in the file and how long it is, then place the kernel at the
\* preferred address (answer apref) or, failing that, anywhere (answer amax).
LinuxAllocKernel(s, apref, amax) ==
  LET s1 == [s EXCEPT !.handover_offset = s.lh.handover_offset,
                      !.start = (s.lh.setup_sects + 1) * 512,
                      !.len = s.img.filelen - (s.lh.setup_sects + 1) * 512]
      a  == IF apref # NULL THEN apref ELSE amax
  IN  IF a = NULL
        THEN Err([s1 EXCEPT !.kernel_mem = NULL],
                 GRUB_ERR_OUT_OF_MEMORY, "can't allocate kernel")
        ELSE [Log(s1, "alloc_kernel") EXCEPT
                !.kernel_mem = a,
                !.heap = AllocPages(s1.heap, a, "kernel",
                                    BYTES_TO_PAGES(s.lh.init_size)),
                !.allocd = @ \cup {a}]

\* grub_loader_set (boot, unload, 0): the dispatcher takes the two actions.
grub_loader_set(s) == [Log(s, "loader_set") EXCEPT !.registered = TRUE]

\* Line 320 reads len bytes at kernel + start in the file buffer and writes
\* them at kernel_mem: the copy stays inside the file and inside the region.
PayloadInBounds(s) ==
  /\ s.start <= s.img.filelen
  /\ s.len >= 0
  /\ s.len <= 4096 * s.heap[s.kernel_mem].pages

\* Line 320, grub_memcpy (kernel_mem, (char *) kernel + start, len).
CopyPayload(s) ==
  [Log(s, "copy_payload") EXCEPT
     !.copy = [done |-> TRUE, start |-> s.start, len |-> s.len,
               room |-> 4096 * s.heap[s.kernel_mem].pages]]

\* Mutant: the load ends once the state is flipped to loaded.
Mutant_FinishWithoutHeader(s, crash) ==
  LET s1 == CopyPayload(s)
      s2 == grub_loader_set(s1)
  IN  IF crash THEN [s1 EXCEPT !.sys = "fatal"]
      ELSE [Log(s2, "loaded") EXCEPT !.loaded = 1]

\* Lines 320-330: copy the payload, register, flip to loaded, then patch the
\* header and copy its first two sectors into the boot-parameter block.
\* crash: a copy that leaves its bounds stops the program there.
LinuxFinish(s, crash) ==
  LET s1 == CopyPayload(s)
      s2 == grub_loader_set(s1)
      s3 == [Log(s2, "loaded") EXCEPT !.loaded = 1]
      s4 == [Log(s3, "copy_header") EXCEPT
               !.pdata = [ZeroParams EXCEPT
                            !.cmdline_size = s.lh.cmdline_size,
                            !.code32_start = s.kernel_mem,
                            !.hdr = TRUE]]
  IN  IF crash THEN [s1 EXCEPT !.sys = "fatal"]
      ELSE [Log(s4, "type_of_loader") EXCEPT !.pdata.type_of_loader = 33]

\* Lines 348-355: the three conditional releases of the exit path.  cpages
\* is the page count BYTES_TO_PAGES(lh.cmdline_size + 1) evaluates to.
LinuxReleaseAll(s, cpages, over) ==
  LET h1 == IF s.linux_cmdline # NULL /\ s.loaded = 0
              THEN FreePages(s.heap, s.linux_cmdline, cpages, over)
              ELSE s.heap
      h2 == IF s.kernel_mem # NULL /\ s.loaded = 0
              THEN FreePages(h1, s.kernel_mem, BYTES_TO_PAGES(s.kernel_size), over)
              ELSE h1
      h3 == IF s.params # NULL /\ s.loaded = 0
              THEN FreePages(h2, s.params, BYTES_TO_PAGES(PARAMS_BYTES), over)
              ELSE h2
  IN  [s EXCEPT !.heap = h3]

\* Lines 332-358: the common exit.  g is what lh.cmdline_size yields when lh
\* was never filled in; fatal is whether releasing the file buffer a second
\* time aborts the program.
LinuxCleanup(s, g, over, fatal) ==
  LET twice == s.kernel = "freed"
      s1 == IF s.kernel # "null" THEN Log(s, "grub_free") ELSE s
      s2 == IF s1.errno # GRUB_ERR_NONE THEN [s1 EXCEPT !.loaded = 0] ELSE s1
      cp == IF s.lhinit THEN BYTES_TO_PAGES(s.lh.cmdline_size + 1) ELSE g
  IN  IF s.sys = "fatal" THEN s
      ELSE IF twice /\ fatal
        THEN [s1 EXCEPT !.sys = "fatal"]
        ELSE LinuxReleaseAll(s2, cp, over)

\* The exit path with its nondeterministic inputs: g matters only when the
\* command line is released with lh still unset, over only on an over-free.
LinuxExit(s) ==
  \E g \in (IF s.linux_cmdline # NULL /\ ~s.lhinit THEN GarbagePages ELSE {0}) :
  \E fatal \in (IF s.kernel = "freed" THEN BOOLEAN ELSE {FALSE}) :
  \E over \in (IF /\ s.errno # GRUB_ERR_NONE
                  /\ OverFree(s.heap, s.linux_cmdline,
                              IF s.lhinit
                                THEN BYTES_TO_PAGES(s.lh.cmdline_size + 1) ELSE g)
                 THEN BOOLEAN ELSE {FALSE}) :
    Commit("linux", LinuxCleanup(s, g, over, fatal))

\* The platform as the signature check finds it: whether the shim protocol
\* is there, the secure-boot state, and the status its verify call returns.
ValidateInputs == [shim : BOOLEAN, sb : BOOLEAN, vr : VerifyResults]

grub_cmd_linux ==
  /\ sys = "running"
  /\ nops < MaxOps
  /\ \/ \E why \in {"noarg", "open", "malloc", "read"} :
          LinuxExit(LinuxEarlyFail(Cur, why))
     \/ \E c \in ValidateInputs :
        \E h \in (IF grub_linuxefi_secure_validate(c.shim, c.sb, c.vr).ret = 0
                  THEN {NoHeader} ELSE Headers) :
          LET s1 == LinuxMeasureAndValidate(LinuxRead(Cur, h), c.shim, c.sb, c.vr)
          IN  IF s1.errno # GRUB_ERR_NONE THEN LinuxExit(s1)
              ELSE \E a1 \in AllocChoices(s1.heap) :
                LET s2 == LinuxAllocParams(s1, a1)
                IN  IF s2.errno # GRUB_ERR_NONE THEN LinuxExit(s2)
                    ELSE
                      LET s3 == LinuxCheckHeader(s2)
                      IN  IF s3.errno # GRUB_ERR_NONE THEN LinuxExit(s3)
                          ELSE \E a2 \in AllocChoices(s3.heap), args \in ArgLists :
                            LET s4 == LinuxAllocCmdline(s3, a2, args)
                            IN  IF s4.errno # GRUB_ERR_NONE THEN LinuxExit(s4)
                                ELSE \E apref \in AllocChoices(s4.heap) :
                                     \E amax \in (IF apref = NULL
                                                    THEN AllocChoices(s4.heap)
                                                    ELSE {NULL}) :
                                  LET s5 == LinuxAllocKernel(s4, apref, amax)
                                  IN  IF s5.errno # GRUB_ERR_NONE
                                        THEN LinuxExit(s5)
                                        ELSE \E crash \in
                                               (IF PayloadInBounds(s5)
                                                  THEN {FALSE} ELSE BOOLEAN) :
                                          LinuxExit(LinuxFinish(s5, crash))

(***************************************************************************)
(* grub_cmd_initrd, stage by stage.                                        *)
(***************************************************************************)
\* size += ALIGN_UP (grub_file_size (files[i]), 4) over the first n files.
RECURSIVE InitrdTotal(_, _)
InitrdTotal(sizes, n) ==
  IF n = 0 THEN 0 ELSE InitrdTotal(sizes, n - 1) + ALIGN_UP(sizes[n], 4)

\* The handler is entered with argc file names.
InitrdEnter(s, argc) == [s EXCEPT !.argc = argc]

\* Mutant: the two argument checks report nothing.
Mutant_InitrdEarlyFailSilent(s, why) ==
  CASE why = "noarg"     -> s
    [] why = "notloaded" -> s
    [] why = "zalloc"    -> Err(s, GRUB_ERR_OUT_OF_MEMORY, "out of memory")

\* Lines 126-140: the exits taken before any file is opened.
InitrdEarlyFail(s, why) ==
  CASE why = "noarg"     -> Err(s, GRUB_ERR_BAD_ARGUMENT, "filename expected")
    [] why = "notloaded" -> Err(s, GRUB_ERR_BAD_ARGUMENT,
                                "you need to load the kernel first")
    [] why = "zalloc"    -> Err(s, GRUB_ERR_OUT_OF_MEMORY, "out of memory")

\* The sizes of the first n files added up as they are.
RECURSIVE RawTotal(_, _)
RawTotal(sizes, n) == IF n = 0 THEN 0 ELSE RawTotal(sizes, n - 1) + sizes[n]

\* Mutant: the file sizes are added up without rounding.
Mutant_InitrdOpenFilesUnaligned(s, sizes, nopen) ==
  LET s1 == [s EXCEPT !.nfiles = nopen, !.size = RawTotal(sizes, nopen),
                      !.sizes = SubSeq(sizes, 1, nopen)]
  IN  IF nopen < Len(sizes)
        THEN Err(s1, GRUB_ERR_FILE_NOT_FOUND, "file not found")
        ELSE s1

\* Lines 142-150: open the argc files in order; nopen of them open.
InitrdOpenFiles(s, sizes, nopen) ==
  LET s1 == [s EXCEPT !.nfiles = nopen, !.size = InitrdTotal(sizes, nopen),
                      !.sizes = SubSeq(sizes, 1, nopen)]
  IN  IF nopen < Len(sizes)
        THEN Err(s1, GRUB_ERR_FILE_NOT_FOUND, "file not found")
        ELSE s1

\* A store through params lands in the block when params names one.
ParamsStore(s, field, v) ==
  IF s.params # NULL /\ s.heap[s.params].st = "live"
       /\ s.heap[s.params].kind = "params"
    THEN [s EXCEPT !.pdata[field] = v]
    ELSE s

\* Lines 152-164: one buffer for all files, recorded in the parameter block.
InitrdAlloc(s, a) ==
  IF a = NULL
    THEN Err([s EXCEPT !.initrd_mem = NULL],
             GRUB_ERR_OUT_OF_MEMORY, "can't allocate initrd")
    ELSE LET s1 == [Log(s, "alloc_initrd") EXCEPT
                      !.initrd_mem = a,
                      !.heap = AllocPages(s.heap, a, "initrd",
                                          BYTES_TO_PAGES(s.size)),
                      !.allocd = @ \cup {a}]
             s2 == ParamsStore(s1, "ramdisk_size", s.size)
         IN  Log(ParamsStore(s2, "ramdisk_image", a), "set_ramdisk")

\* Lines 166-182: where the loop puts the first n files.  ptr starts at
\* initrd_mem (offset 0) and moves past each file and its zero padding.
RECURSIVE InitrdPlace(_, _)
InitrdPlace(sizes, n) ==
  IF n = 0 THEN <<>>
  ELSE LET prev == InitrdPlace(sizes, n - 1)
           ptr  == IF n = 1 THEN 0
                   ELSE prev[n - 1].off + prev[n - 1].len + prev[n - 1].pad
       IN  Append(prev, [off |-> ptr, len |-> sizes[n],
                         pad |-> ALIGN_UP_OVERHEAD(sizes[n], 4)])

\* Lines 166-184: read the files in order; nread of them are read in full.
InitrdRead(s, nread) ==
  LET s1 == [s EXCEPT !.log = @ \o [i \in 1..nread |-> "measure_initrd"],
                      !.layout = InitrdPlace(s.sizes, nread)]
  IN  IF nread < s.nfiles
        THEN Err(s1, GRUB_ERR_FILE_READ_ERROR, "premature end of file")
        ELSE Log(ParamsStore(s1, "ramdisk_size", s.size), "set_ramdisk_size")

\* Lines 186-197: close the files and, on error, release initrd_mem.
InitrdCleanup(s, over) ==
  IF s.initrd_mem # NULL /\ s.errno # GRUB_ERR_NONE
    THEN [Log(s, "free_initrd") EXCEPT
            !.heap = FreePages(s.heap, s.initrd_mem,
                               BYTES_TO_PAGES(s.size), over)]
    ELSE s

InitrdExit(s) ==
  \E over \in (IF /\ s.errno # GRUB_ERR_NONE
                  /\ OverFree(s.heap, s.initrd_mem, BYTES_TO_PAGES(s.size))
                 THEN BOOLEAN ELSE {FALSE}) :
    Commit("initrd", InitrdCleanup(s, over))

grub_cmd_initrd ==
  /\ sys = "running"
  /\ nops < MaxOps
  /\ \E argc \in 0..MaxInitrdFiles :
       LET s0 == InitrdEnter(Cur, argc)
       IN
       IF argc = 0 THEN InitrdExit(InitrdEarlyFail(s0, "noarg"))
       ELSE IF loaded = 0 THEN InitrdExit(InitrdEarlyFail(s0, "notloaded"))
       ELSE \/ InitrdExit(InitrdEarlyFail(s0, "zalloc"))
            \/ \E sizes \in [1..argc -> InitrdSizes], nopen \in 0..argc :
                 LET s1 == InitrdOpenFiles(s0, sizes, nopen)
                 IN  IF s1.errno # GRUB_ERR_NONE THEN InitrdExit(s1)
                     ELSE \E a \in AllocChoices(s1.heap) :
                       LET s2 == InitrdAlloc(s1, a)
                       IN  IF s2.errno # GRUB_ERR_NONE THEN InitrdExit(s2)
                           ELSE \E nread \in 0..argc :
                                  InitrdExit(InitrdRead(s2, nread))

(***************************************************************************)
(* grub_linuxefi_unload                                                    *)
(***************************************************************************)
\* A field of *params can be read when params names a whole live
\* boot-parameter block; otherwise the read yields whatever is there.
ParamsReadable(s, h) ==
  /\ s.params # NULL
  /\ h[s.params].st = "live"
  /\ h[s.params].kind = "params"

\* Lines 101-114.  g1, g2: what params->ramdisk_size and
\* params->cmdline_size yield when *params cannot be read.
grub_linuxefi_unload(s, g1, g2, over) ==
  LET rp == IF ParamsReadable(s, s.heap)
              THEN BYTES_TO_PAGES(s.pdata.ramdisk_size) ELSE g1
      h1 == IF s.initrd_mem # NULL
              THEN FreePages(s.heap, s.initrd_mem, rp, over) ELSE s.heap
      cp == IF ParamsReadable(s, h1)
              THEN BYTES_TO_PAGES(s.pdata.cmdline_size + 1) ELSE g2
      h2 == IF s.linux_cmdline # NULL
              THEN FreePages(h1, s.linux_cmdline, cp, over) ELSE h1
      h3 == IF s.kernel_mem # NULL
              THEN FreePages(h2, s.kernel_mem, BYTES_TO_PAGES(s.kernel_size), over)
              ELSE h2
      h4 == IF s.params # NULL
              THEN FreePages(h3, s.params, BYTES_TO_PAGES(PARAMS_BYTES), over)
              ELSE h3
  IN  [Log(s, "unload") EXCEPT !.loaded = 0, !.heap = h4]

\* The dispatcher drops the registered actions once it has run unload.
grub_loader_unset(s) == [s EXCEPT !.registered = FALSE]

Unload ==
  /\ sys = "running"
  /\ nops < MaxOps
  /\ registered
  /\ \E g1 \in (IF initrd_mem # NULL /\ ~ParamsReadable(Cur, heap)
                  THEN GarbagePages ELSE {0}) :
     \E g2 \in (IF linux_cmdline # NULL THEN GarbagePages ELSE {0}) :
     \E over \in BOOLEAN :
       Commit("unload", grub_loader_unset(grub_linuxefi_unload(Cur, g1, g2, over)))

(***************************************************************************)
(* grub_linuxefi_boot                                                      *)
(***************************************************************************)
\* Lines 82-92: the handover call and its arguments.
grub_linuxefi_boot(arch64) ==
  [arch64 |-> arch64,
   base |-> kernel_mem,
   off |-> handover_offset + (IF arch64 THEN OFFSET_X86_64 ELSE 0),
   params |-> params,
   loaded |-> loaded,
   kernel_live |-> kernel_mem # NULL /\ heap[kernel_mem].st = "live"
                     /\ heap[kernel_mem].kind = "kernel",
   params_live |-> ParamsReadable(Cur, heap),
   cli |-> TRUE]

\* The dispatcher's boot command: it runs the registered boot action, and
\* refuses when none is registered.
Boot ==
  /\ sys = "running"
  /\ nops < MaxOps
  /\ nops' = nops + 1
  /\ UNCHANGED lastgood
  /\ IF registered
       THEN /\ \E arch64 \in BOOLEAN : booted' = grub_linuxefi_boot(arch64)
            /\ sys' = "booted"
            /\ last' = [last EXCEPT !.op = "boot", !.errno = GRUB_ERR_NONE,
                                    !.msg = "", !.log = <<"cli", "handover">>,
                                    !.allocd = {}, !.was_loaded = loaded]
            /\ UNCHANGED <<loaded, kernel_mem, kernel_size, initrd_mem,
                           handover_offset, params, linux_cmdline, pdata, heap,
                           registered>>
       ELSE /\ last' = [last EXCEPT !.op = "boot", !.errno = GRUB_ERR_NO_KERNEL,
                                    !.msg = "you need to load the kernel first",
                                    !.log = <<>>, !.allocd = {},
                                    !.was_loaded = loaded]
            /\ UNCHANGED <<loaded, kernel_mem, kernel_size, initrd_mem,
                           handover_offset, params, linux_cmdline, pdata, heap,
                           registered, sys, booted>>

Next == grub_cmd_linux \/ grub_cmd_initrd \/ Unload \/ Boot

Spec == Init /\ [][Next]_vars

(***************************************************************************)
(* Properties.                                                             *)
(***************************************************************************)
AllocEvents == {"alloc_params", "alloc_cmdline", "alloc_kernel"}

Positions(log, e) == {i \in 1..Len(log) : log[i] = e}

\* The most recent operation was a load that returned to the dispatcher.
LoadReturned == last.op = "linux" /\ sys = "running"

\* C1: across any sequence of loads, initrd loads and unloads, no firmware
\* region is passed to the page-free primitive more than once per
\* allocation.
C1_FreedAtMostOnce == \A a \in Addr : heap[a].frees <= 1

\* C2: when a load attempt fails, every firmware region allocated during
\* that attempt has been released and the state is Unloaded.
C2_FailedLoadReleasesAttempt ==
  (LoadReturned /\ last.errno # GRUB_ERR_NONE) =>
    /\ loaded = 0
    /\ \A a \in last.allocd : ~Outstanding(heap, a)

\* C3: after an unload run from the Loaded state, none of the regions held
\* for the kernel, the command line, the initrd and the parameter block
\* remains allocated, and the state is Unloaded.
C3_UnloadReleasesAll ==
  (last.op = "unload" /\ last.was_loaded = 1) =>
    /\ loaded = 0
    /\ \A a \in {kernel_mem, linux_cmdline, initrd_mem, params} \ {NULL} :
         ~Outstanding(heap, a)

\* C4: at every operation boundary the state is Loaded if and only if a
\* parameter block and a kernel region are both live, and a command-line
\* buffer is live if and only if the state is Loaded.
C4_LoadedIffLive ==
  sys = "running" =>
    /\ loaded = 1 <=> (LiveOf(heap, "params") # {} /\ LiveOf(heap, "kernel") # {})
    /\ LiveOf(heap, "cmdline") # {} <=> loaded = 1

\* C5: at most one region of each kind is outstanding, and after every
\* successful load exactly one parameter block, one kernel region and one
\* command-line buffer exist and the state is Loaded.
C5_AtMostOneOfEach ==
  /\ \A k \in Kinds : Cardinality(LiveOf(heap, k)) <= 1
  /\ (LoadReturned /\ last.errno = GRUB_ERR_NONE) =>
       /\ loaded = 1
       /\ \A k \in {"params", "kernel", "cmdline"} :
            Cardinality(LiveOf(heap, k)) = 1

\* C6: the boot action transfers control only when the state is Loaded and
\* the kernel region and the parameter block are both live.
C6_BootOnlyWhenLoaded ==
  sys = "booted" =>
    /\ booted.loaded = 1
    /\ booted.kernel_live
    /\ booted.params_live

\* C7: in a load attempt the whole file is measured, then its signature is
\* checked, then the first firmware page allocation is made; the file is
\* measured whether the check passes or fails, and a failed check ends the
\* load with the invalid-signature error and no page allocation.
C7_MeasureVerifyAllocate ==
  last.op = "linux" =>
    /\ \A i \in Positions(last.log, "validate") :
         \E j \in Positions(last.log, "measure") : j < i
    /\ \A i \in 1..Len(last.log) :
         last.log[i] \in AllocEvents =>
           \E j \in Positions(last.log, "validate") : j < i
    /\ last.sv.run <=> Positions(last.log, "validate") # {}
    /\ (last.sv.run /\ last.sv.ret = 0) =>
         /\ last.errno = GRUB_ERR_INVALID_COMMAND
         /\ last.allocd = {}
         /\ \A i \in 1..Len(last.log) : last.log[i] \notin AllocEvents

\* A load whose signature check failed, after the file was measured.
C7_Witness ==
  /\ last.op = "linux"
  /\ last.sv.run
  /\ last.sv.ret = 0
  /\ Positions(last.log, "measure") # {}
  /\ last.errno = GRUB_ERR_INVALID_COMMAND

\* C8: the signature check passes exactly when the shim protocol is absent
\* and secure boot is not enforced, or the protocol is present and its
\* verify call succeeds; it fails when the protocol is absent and secure
\* boot is enforced; the secure-boot state is queried only when the
\* protocol is absent.
C8_ValidateDecision ==
  last.sv.run =>
    /\ last.sv.ret = 1 <=>
         \/ ~last.sv.shim /\ ~last.sv.sb
         \/ last.sv.shim /\ last.sv.vr = GRUB_EFI_SUCCESS
    /\ (~last.sv.shim /\ last.sv.sb) => last.sv.ret = 0
    /\ last.sv.sbq => ~last.sv.shim

\* The check ran without the shim protocol under secure boot and failed.
C8_Witness ==
  /\ last.sv.run
  /\ ~last.sv.shim
  /\ last.sv.sb
  /\ last.sv.sbq
  /\ last.sv.ret = 0

\* The message of the first of the four header checks that h fails.
FirstDefect(h) ==
  IF h.boot_flag # BOOT_FLAG_MAGIC THEN "invalid magic number"
  ELSE IF h.setup_sects > GRUB_LINUX_MAX_SETUP_SECTS THEN "too many setup sectors"
  ELSE IF h.version < MIN_HANDOVER_VERSION THEN "kernel too old"
  ELSE "kernel doesn't support EFI handover"

\* The most recent operation was a load that read its file and accepted
\* its signature.
LoadVerified == LoadReturned /\ last.sv.run /\ last.sv.ret = 1

\* C9: for an image that was read and passed verification, the load fails
\* with bad-format exactly when the header fails one of the four checks,
\* the error reported is that of the first check that fails, and after
\* such a failure no allocation is outstanding and the state is Unloaded.
C9_HeaderRejection ==
  LoadVerified =>
    /\ last.errno = GRUB_ERR_BAD_OS <=> ~WellFormed(last.img)
    /\ last.errno = GRUB_ERR_BAD_OS =>
         /\ last.msg = FirstDefect(last.img)
         /\ loaded = 0
         /\ \A a \in Addr : ~Outstanding(heap, a)

\* The image of the most recent load has a wrong boot-sector magic or no
\* handover entry.
BadMagicOrNoHandover ==
  \/ last.img.boot_flag # BOOT_FLAG_MAGIC
  \/ last.img.handover_offset = 0

LoadFromUnloaded(h) ==
  /\ LoadVerified
  /\ last.was_loaded = 0
  /\ last.img = h
  /\ last.errno # GRUB_ERR_OUT_OF_MEMORY

\* The load succeeded with a kernel region of init_size rounded up to pages.
LoadedWithKernelOf(h) ==
  /\ last.errno = GRUB_ERR_NONE
  /\ loaded = 1
  /\ kernel_mem # NULL
  /\ heap[kernel_mem] = [st |-> "live", kind |-> "kernel",
                         pages |-> BYTES_TO_PAGES(h.init_size), frees |-> 0]

\* C11: from Unloaded, with the signature check passing and every page
\* allocation succeeding, the image with the magic, setup_sects = 4,
\* version = 0x0203 and handover_offset = 0x1e0 loads: the kernel region has
\* init_size rounded up to whole pages and the state is Loaded.
C11_Image0203Loads == LoadFromUnloaded(Image0203) => LoadedWithKernelOf(Image0203)

\* C11 as amended: the image loads when its version is 0x020b, the lowest
\* the loader accepts; with version 0x0203 the load is refused as
\* "kernel too old" and the state stays Unloaded.
C11_Image020bLoads ==
  /\ LoadFromUnloaded(Image020b) => LoadedWithKernelOf(Image020b)
  /\ LoadFromUnloaded(Image0203) =>
       /\ last.errno = GRUB_ERR_BAD_OS
       /\ last.msg = "kernel too old"
       /\ loaded = 0

\* The 2.11 image was loaded from the unloaded state.
C11_Witness == LoadFromUnloaded(Image020b) /\ LoadedWithKernelOf(Image020b)


\* Which pages of the pool are allocated, and to what.
AllocState(h) ==
  [a \in Addr |-> [st |-> h[a].st, kind |-> h[a].kind, pages |-> h[a].pages]]

\* This step is an initrd command that has returned.
InitrdStep == last'.op = "initrd" /\ nops' = nops + 1

RamdiskFieldSound ==
  (loaded = 1 /\ ParamsReadable(Cur, heap) /\ pdata.ramdisk_image # NULL) =>
    /\ heap[pdata.ramdisk_image].st = "live"
    /\ heap[pdata.ramdisk_image].kind = "initrd"

\* C13: when an initrd command fails after its buffer was allocated, that
\* buffer has been released and the ramdisk address and size fields of the
\* parameter block hold what they held before the command; and whenever the
\* state is Loaded a non-zero ramdisk address names a live initrd buffer.
C13_InitrdRollback ==
  /\ [][(InitrdStep /\ last'.errno # GRUB_ERR_NONE /\ last'.allocd # {}) =>
          /\ \A a \in last'.allocd : ~Outstanding(heap', a)
          /\ pdata'.ramdisk_image = pdata.ramdisk_image
          /\ pdata'.ramdisk_size = pdata.ramdisk_size]_vars
  /\ []RamdiskFieldSound

\* C14: an initrd command that fails while the state is Loaded leaves the
\* state Loaded and the kernel, command-line and parameter regions
\* allocated; nothing but the buffer allocated by that command is released.
C14_InitrdFailureFrame ==
  [][(InitrdStep /\ loaded = 1 /\ last'.errno # GRUB_ERR_NONE) =>
       /\ loaded' = 1
       /\ UNCHANGED <<kernel_mem, linux_cmdline, params>>
       /\ \A a \in Addr :
            Outstanding(heap, a) => AllocState(heap')[a] = AllocState(heap)[a]]_vars

\* x rounded up to a multiple of 4.
RoundUp4(x) == CHOOSE m \in x..(x + 3) : m % 4 = 0

\* The rounded sizes of the first n sources, added up.
RECURSIVE SumRounded(_, _)
SumRounded(ss, n) == IF n = 0 THEN 0 ELSE SumRounded(ss, n - 1) + RoundUp4(ss[n])

\* The most recent operation was an initrd command that read all its files.
InitrdLoaded ==
  last.op = "initrd" /\ last.was_loaded = 1 /\ last.errno = GRUB_ERR_NONE

\* C15: when N >= 1 sources of sizes s1..sN are all read while Loaded, the
\* buffer size is the sum of the sizes each rounded up to a multiple of 4,
\* the ramdisk size field holds that sum, the ramdisk address field holds
\* the buffer base, and source i lies at the sum of the rounded sizes of the
\* sources before it, followed by padding up to the next multiple of 4
\* (sizes 10 and 3 give 16).  The two fields are those of the parameter
\* block params names, as long as that block is still allocated in full.
C15_InitrdSizeAndLayout ==
  InitrdLoaded =>
    LET ss    == last.sizes
        N     == Len(ss)
        total == SumRounded(ss, N)
    IN  /\ N >= 1
        /\ N = last.argc
        /\ last.size = total
        /\ initrd_mem \in last.allocd
        /\ heap[initrd_mem].st = "live"
        /\ heap[initrd_mem].pages = BYTES_TO_PAGES(total)
        /\ ParamsReadable(Cur, heap) =>
             /\ pdata.ramdisk_size = total
             /\ pdata.ramdisk_image = initrd_mem
        /\ Len(last.layout) = N
        /\ \A i \in 1..N :
             /\ last.layout[i].off = SumRounded(ss, i - 1)
             /\ last.layout[i].len = ss[i]
             /\ last.layout[i].off + ss[i] + last.layout[i].pad
                  = SumRounded(ss, i)
        /\ ss = <<10, 3>> => total = 16

\* Two sources of 10 and 3 bytes were loaded.
C15_Witness == InitrdLoaded /\ last.sizes = <<10, 3>> /\ pdata.ramdisk_size = 16

\* The most recent operation was a load that built its command line.
CmdlineBuilt == last.op = "linux" /\ last.cmd.built

\* C16: whatever cmdline_size the header declares and whatever arguments
\* the user gives, the bytes written into the command-line buffer (prefix,
\* built command line and terminating null) do not exceed cmdline_size, and
\* the capacity handed to the builder, cmdline_size less the prefix length,
\* is neither negative nor wrapped around.
C16_CmdlineWithinCapacity ==
  CmdlineBuilt =>
    /\ ~last.cmd.cap.wrapped
    /\ last.cmd.extent <= last.img.cmdline_size

\* C17: the buffer holding the raw kernel file is released exactly once on
\* every exit of a load that allocated it, never zero times, never twice.
C17_FileBufferFreedOnce ==
  (last.op = "linux" /\ Positions(last.log, "grub_malloc") # {}) =>
    Cardinality(Positions(last.log, "grub_free")) = 1

\* The parameter block holds the patched header and the loader-type tag.
ParamsComplete ==
  /\ ParamsReadable(Cur, heap)
  /\ pdata.hdr
  /\ pdata.code32_start = kernel_mem
  /\ pdata.type_of_loader = 33

\* C18: within a load the state is set to Loaded only after the header's
\* entry address has been patched, the patched header copied into the
\* parameter block and the loader-type tag set.
C18_HeaderBeforeLoaded ==
  last.op = "linux" =>
    \A i \in Positions(last.log, "loaded") :
      /\ \E j \in Positions(last.log, "copy_header") : j < i
      /\ \E j \in Positions(last.log, "type_of_loader") : j < i

\* C18 as amended: the state is set to Loaded after the payload copy and the
\* registration, and the header patch and copy and the loader-type tag
\* follow it at once within the same load; when a load returns with success
\* the state is Loaded and the parameter block holds the patched header and
\* the tag.
C18_LoadedBeforeHeader ==
  /\ last.op = "linux" =>
       \A i \in Positions(last.log, "loaded") :
         /\ \E j \in Positions(last.log, "copy_payload") : j < i
         /\ \E j \in Positions(last.log, "loader_set") : j < i
         /\ i + 2 <= Len(last.log)
         /\ last.log[i + 1] = "copy_header"
         /\ last.log[i + 2] = "type_of_loader"
  /\ (LoadReturned /\ last.errno = GRUB_ERR_NONE) =>
       /\ loaded = 1
       /\ ParamsComplete

\* A load has returned with the state Loaded and the header in place.
C18_Witness ==
  /\ last.op = "linux"
  /\ last.errno = GRUB_ERR_NONE
  /\ Positions(last.log, "loaded") # {}
  /\ loaded = 1
  /\ ParamsComplete


\* C19: when the boot action runs, the entry it calls is the kernel base
\* plus the handover offset plus 0 (32-bit) or 512 (64-bit), base and
\* offset being those recorded by the most recent successful load whatever
\* failed load came after it; interrupts are off before the call, and the
\* third argument is the parameter block of that load.
C19_BootEntry ==
  sys = "booted" =>
    /\ booted.base = lastgood.base
    /\ booted.off = lastgood.off + (IF booted.arch64 THEN 512 ELSE 0)
    /\ booted.params = lastgood.params
    /\ booted.cli

\* C20: for an image that passes the header checks the payload copy stays
\* in bounds: the payload offset (setup_sects + 1) * 512 does not exceed the
\* file size, the payload length, file size less offset, is not negative,
\* and it does not exceed the bytes allocated for the kernel region.
C20_PayloadCopyInBounds ==
  (last.op = "linux" /\ last.copy.done) =>
    /\ WellFormed(last.img)
    /\ last.copy.start = (last.img.setup_sects + 1) * 512
    /\ last.copy.start <= last.img.filelen
    /\ last.copy.len = last.img.filelen - last.copy.start
    /\ last.copy.len >= 0
    /\ last.copy.len <= 4096 * BYTES_TO_PAGES(last.img.init_size)
=============================================================================
